---------------------------- MODULE Spec2Model ----------------------------
(***************************************************************************)
(* Credential and session lifecycle of the auth API                        *)
(* (src/server/controller/authController.js, models/User.js, utils/jwt.js, *)
(* jobs/deleteUnverifiedUsers.js).                                         *)
(*                                                                         *)
(* The store is the users collection.  Every request handler runs as one   *)
(* or two atomic steps: the first step is the handler's store read and the *)
(* synchronous code that follows it, the second step is its store write    *)
(* (user.save / User.create) and the code that follows it.  Other requests,*)
(* the reaper and the clock can take steps in between.                     *)
(***************************************************************************)
EXTENDS Integers, FiniteSets, Sequences, TLC

\* ---------------------------------------------------------------- bounds
\* Accounts ever created (ObjectIds are never reused).
MaxIds == 2
\* Last clock value.  One clock unit is the resolution of a JWT "iat" claim.
MaxTime == 2
\* Requests that can be in flight at the same time.
MaxReqs == 2
\* Tokens the clients keep for later use.
MaxHeld == 1
\* Lifetimes, scaled down to clock units so that expiry happens within
\* MaxTime: JWT_REFRESH_EXPIRES_IN and JWT_ACCESS_EXPIRES_IN (environment),
\* the "10m" of the verification token, and the 30 minutes of the sweep.
RefreshTTL == 2
AccessTTL == 1
VerificationTTL == 1
GracePeriod == 1
\* The 60 * 60 * 1000 ms lifetime of a reset token, scaled likewise.
ResetTTL == 1
\* Reset tokens ever generated.
MaxResets == 2

Ids == 1..MaxIds
Times == 0..MaxTime
Slots == 1..MaxReqs
Emails == {"a@x", "b@x"}
Passwords == {"pw1", "pw2"}
RegisterPassword == "pw1"
RegisterName == "Ann"
ProfileName == "Bob"

VARIABLES
  users,    \* the users collection: _id -> document
  nextId,   \* the next _id the store hands out
  now,      \* the clock (Date.now(), and the clock jsonwebtoken reads)
  reqs,     \* per slot: the request in flight, or the last response
  held,     \* tokens that reached a client (cookie, body, email) and are kept
  spent,    \* the held tokens a successful refresh or reset has presented
  nextReset \* the serial of the next value crypto.randomBytes returns

vars == <<users, nextId, nextReset, now, reqs, held, spent, nextReset>>

\* ---------------------------------------------------------------- tokens
\* A JWT is its family (the secret that signed it) and its payload.  Signing
\* is deterministic: the same payload signed in the same clock unit is the
\* same token.
NoToken == [fam |-> "none", id |-> 0, email |-> "", iat |-> 0, exp |-> 0]
\* A malformed string, or a token signed with a secret of no family.
Garbage == [fam |-> "bad", id |-> 0, email |-> "", iat |-> 0, exp |-> 0]

jwtSign(fam, id, email, ttl) ==
  [fam |-> fam, id |-> id, email |-> email, iat |-> now, exp |-> now + ttl]

\* jwt.verify: signature of the family's secret, and not expired.
jwtVerify(token, fam) == token.fam = fam /\ now < token.exp

generateToken(email) == jwtSign("verify", 0, email, VerificationTTL)
verifyToken(token) == jwtVerify(token, "verify")
signAccessToken(id) == jwtSign("access", id, "", AccessTTL)
signRefreshToken(id) == jwtSign("refresh", id, "", RefreshTTL)
verifyAccessToken(token) == jwtVerify(token, "access")
\* Mutant: JWT_REFRESH_SECRET is the secret of the access tokens too.
verifyRefreshToken_SharedSecret(token) ==
  token.fam \in {"refresh", "access"} /\ now < token.exp
verifyRefreshToken(token) == jwtVerify(token, "refresh")

\* ------------------------------------------------------------- passwords
Plain(p) == [plain |-> p, rounds |-> 0]
bcryptHash(v) == [v EXCEPT !.rounds = @ + 1]
bcryptCompare(entered, stored) == stored = bcryptHash(Plain(entered))
\* userSchema.pre("save"): a modified password is hashed before the write.
preSave(password) == bcryptHash(password)
\* The password check of the User model.  login and updatePassword call it
\* as user.comparePassword; models/User.js declares it as matchPassword.
comparePassword(u, entered) == bcryptCompare(entered, users[u].password)

\* ----------------------------------------------------------------- store
\* 0 stands for "no document" (null).
findOne(email) ==
  IF \E i \in DOMAIN users : users[i].email = email
  THEN CHOOSE i \in DOMAIN users : users[i].email = email
  ELSE 0
findById(id) == IF id \in DOMAIN users THEN id ELSE 0
\* email: { unique: true }: the index rejects a write that would give a
\* second document this email.
\* Mutant: the schema declares no unique index.
uniqueIndexRejects_NoIndex(email, self) == FALSE
uniqueIndexRejects(email, self) ==
  \E i \in DOMAIN users : i # self /\ users[i].email = email
newUser(name, email, password, verificationToken) ==
  [name |-> name, email |-> email, password |-> preSave(Plain(password)),
   role |-> "user", isVerified |-> FALSE, createdAt |-> now,
   refreshToken |-> NoToken, verificationToken |-> verificationToken,
   resetPasswordToken |-> NoToken, resetPasswordExpiresAt |-> 0]
\* Mutant: the document is marked as deleted and stays in the collection.
Remove_MarksOnly(id) == [users EXCEPT ![id].refreshToken = NoToken]
Remove(id) == [i \in DOMAIN users \ {id} |-> users[i]]

\* -------------------------------------------------------------- requests
Blank ==
  [op |-> "none", pc |-> "idle", email |-> "", pw |-> "", name |-> "",
   tok |-> NoToken, uid |-> 0, tok2 |-> NoToken,
   status |-> 0, error |-> "", cookie |-> NoToken, access |-> NoToken,
   ovl |-> FALSE, acct |-> "", credOk |-> FALSE, reuse |-> FALSE, made |-> 0,
   body |-> {}]

\* pc is "save" between a handler's read and its write; the per-account
\* deletion job is at "wait" between its first and its second read.
InFlight(t) == reqs[t].pc \in {"wait", "save"}
Free(s) == ~InFlight(s)
\* ovl records that another request was in flight during this one.
Overlaps(s) == \E t \in Slots : t # s /\ InFlight(t)
Put(s, r) ==
  [t \in Slots |->
     IF t = s THEN r
     ELSE IF InFlight(t) /\ r.ovl THEN [reqs[t] EXCEPT !.ovl = TRUE]
     ELSE reqs[t]]
\* A request arrives in slot s.
Arrive(s, op) == [Blank EXCEPT !.op = op, !.ovl = Overlaps(s)]
\* The response; the handler's locals go out of scope.
Respond(r, status, error) ==
  [r EXCEPT !.pc = "done", !.status = status, !.error = error,
            !.uid = 0, !.tok2 = NoToken, !.name = ""]
Pending(r) == [r EXCEPT !.pc = "save"]
\* For the record: what the handler's read showed (acct), whether the
\* presented password or refresh token matched the stored one (credOk),
\* whether the presented refresh token had been spent before (reuse), and
\* the _id of the document the request created (made).
AccountSeen(u) ==
  IF u = 0 THEN "missing" ELSE IF users[u].isVerified THEN "verified" ELSE "pending"

\* A client receives token t: it keeps it, dropping an older one when it
\* already holds MaxHeld, or does not keep it.
Keep(t) ==
  IF t \in held THEN {held}
  ELSE IF Cardinality(held) < MaxHeld THEN {held \cup {t}}
  ELSE {held} \cup {(held \ {x}) \cup {t} : x \in held}
\* Tokens a client can present in the cookie or in the query string.
PresentableTokens == held \cup {NoToken, Garbage}
\* Login and refresh hand out the access token with the refresh token.
accessOf(rt) == [rt EXCEPT !.fam = "access", !.exp = rt.iat + AccessTTL]
PresentableAccess ==
  {accessOf(t) : t \in {x \in held : x.fam = "refresh"}} \cup {NoToken, Garbage}

\* The tokens in the account object of a response body: { ...user._doc } has
\* every field the query loaded or the handler assigned; refreshToken is
\* select: false and loaded only with select("+refreshToken").
accountInBody(doc, withRefreshToken) ==
  ( {doc.verificationToken, doc.resetPasswordToken}
    \cup (IF withRefreshToken THEN {doc.refreshToken} ELSE {}) ) \ {NoToken}

Init ==
  /\ users = << >>
  /\ nextId = 1
  /\ now = 0
  /\ reqs = [s \in Slots |-> Blank]
  /\ held = {}
  /\ spent = {}
  /\ nextReset = 1

\* -------------------------------------------------------------- register
\* Mutant: the handler's own "email in use" check is skipped.
registerUserExists_Skipped(email) == FALSE
registerUserExists(email) == findOne(email) # 0

register(s, email, password) ==
  /\ Free(s)
  /\ LET r == [Arrive(s, "register") EXCEPT !.email = email, !.pw = password,
                                            !.name = RegisterName,
                                            !.acct = AccountSeen(findOne(email))]
     IN IF registerUserExists(email)
        THEN reqs' = Put(s, Respond(r, 400, "Email already in use"))
        ELSE /\ nextId + Cardinality({t \in Slots : InFlight(t)
                                        /\ reqs[t].op = "register"}) <= MaxIds
             /\ reqs' = Put(s, Pending([r EXCEPT !.tok2 = generateToken(email)]))
  /\ UNCHANGED <<users, nextId, nextReset, now, held, spent>>

\* User.create, then sendVerificationEmail, then the 201 response.
registerCreate(s) ==
  /\ InFlight(s) /\ reqs[s].op = "register"
  /\ LET r == reqs[s]
     IN IF uniqueIndexRejects(r.email, 0)
        THEN /\ reqs' = Put(s, Respond(r, 500, "Registration failed"))
             /\ UNCHANGED <<users, nextId, held>>
        ELSE /\ users' = (nextId :> newUser(r.name, r.email, r.pw, r.tok2)) @@ users
             /\ nextId' = nextId + 1
             /\ \E delivered \in BOOLEAN :
                  IF delivered
                  THEN /\ reqs' = Put(s, Respond(
                            [r EXCEPT !.made = nextId,
                                      !.body = accountInBody(users'[nextId], TRUE)],
                            201, ""))
                       /\ held' \in Keep(r.tok2)
                  ELSE /\ reqs' = Put(s, Respond([r EXCEPT !.made = nextId],
                                                 500, "Registration failed"))
                       /\ UNCHANGED held
  /\ spent' = spent \cap held'
  /\ UNCHANGED <<now, nextReset>>

\* ----------------------------------------------------------- verifyEmail
\* What a catch block around a failed jwt.verify answers: a fixed text, never
\* the message of the error it caught.
\* Mutant: the caught error's message is passed on.
catchMessage_ErrMessage(token, generic) ==
  IF token.fam \in {"none", "bad"} THEN "jwt malformed"
  ELSE IF now >= token.exp THEN "jwt expired" ELSE "invalid signature"
catchMessage(token, generic) == generic

\* Mutant: the "already verified" test is dropped.
verifyEmailRejects_MissingOnly(u) == u = 0
verifyEmailRejects(u) == u = 0 \/ users[u].isVerified

verifyEmail(s, token) ==
  /\ Free(s)
  /\ LET r == [Arrive(s, "verifyEmail") EXCEPT !.tok = token]
     IN IF ~verifyToken(token)
        THEN reqs' = Put(s, Respond(r, 400,
                                    catchMessage(token, "Invalid or expired token")))
        ELSE LET u == findOne(token.email)
             IN IF verifyEmailRejects(u)
                THEN reqs' = Put(s, Respond([r EXCEPT !.acct = AccountSeen(u)],
                                            400, "Invalid or already verified"))
                ELSE reqs' = Put(s, Pending([r EXCEPT !.uid = u,
                                                      !.acct = AccountSeen(u)]))
  /\ UNCHANGED <<users, nextId, nextReset, now, held, spent>>

\* user.save(), then sendVerificationSuccessEmail, then the response.
verifyEmailSave(s) ==
  /\ InFlight(s) /\ reqs[s].op = "verifyEmail"
  /\ LET r == reqs[s]
     IN IF findById(r.uid) = 0
        THEN /\ reqs' = Put(s, Respond(r, 400, "Invalid or expired token"))
             /\ UNCHANGED users
        ELSE /\ users' = [users EXCEPT ![r.uid].isVerified = TRUE,
                                       ![r.uid].verificationToken = NoToken]
             /\ \E delivered \in BOOLEAN :
                  IF delivered
                  THEN reqs' = Put(s, Respond(r, 200, ""))
                  ELSE reqs' = Put(s, Respond(r, 400, "Invalid or expired token"))
  /\ UNCHANGED <<nextId, nextReset, now, held, spent>>

\* ----------------------------------------------------------------- login
\* Mutant: the isVerified test is dropped.
loginRejects_MissingOnly(u) == u = 0
loginRejects(u) == u = 0 \/ ~users[u].isVerified

login(s, email, password) ==
  /\ Free(s)
  /\ LET u == findOne(email)
         r == [Arrive(s, "login") EXCEPT
                 !.email = email, !.pw = password, !.acct = AccountSeen(u),
                 !.credOk = (u # 0 /\ bcryptCompare(password, users[u].password))]
     IN IF loginRejects(u)
        THEN reqs' = Put(s, Respond(r, 403, "Invalid credentials or unverified email"))
        ELSE IF ~comparePassword(u, password)
        THEN reqs' = Put(s, Respond(r, 401, "Invalid credentials"))
        ELSE reqs' = Put(s, Pending([r EXCEPT !.uid = u,
                                              !.access = signAccessToken(u),
                                              !.tok2 = signRefreshToken(u)]))
  /\ UNCHANGED <<users, nextId, nextReset, now, held, spent>>

\* user.save(), then the cookie and the response.  The handler has no
\* try/catch: a save that throws leaves the request without a response.
loginSave(s) ==
  /\ InFlight(s) /\ reqs[s].op = "login"
  /\ LET r == reqs[s]
     IN IF findById(r.uid) = 0
        THEN /\ reqs' = Put(s, Respond([r EXCEPT !.access = NoToken],
                                       0, "unhandled rejection"))
             /\ UNCHANGED <<users, held>>
        ELSE /\ users' = [users EXCEPT ![r.uid].refreshToken = r.tok2]
             /\ reqs' = Put(s, Respond(
                  [r EXCEPT !.cookie = r.tok2,
                            !.body = accountInBody(users'[r.uid], TRUE)],
                  200, ""))
             /\ held' \in Keep(r.tok2)
  /\ spent' = spent \cap held'
  /\ UNCHANGED <<nextId, nextReset, now>>

\* --------------------------------------------------------------- refresh
\* Mutant: the presented token is not compared with the stored one.
refreshRejects_MissingOnly(u, token) == u = 0
refreshRejects(u, token) == u = 0 \/ users[u].refreshToken # token

refresh(s, token) ==
  /\ Free(s)
  /\ LET u == findById(token.id)
         r == [Arrive(s, "refresh") EXCEPT
                 !.tok = token, !.reuse = (token \in spent),
                 !.credOk = (u # 0 /\ users[u].refreshToken = token)]
     IN IF token = NoToken
        THEN reqs' = Put(s, Respond(r, 401, "Missing refresh token"))
        ELSE IF ~verifyRefreshToken(token)
        THEN reqs' = Put(s, Respond(r, 403,
                                    catchMessage(token, "Invalid or expired token")))
        ELSE IF refreshRejects(u, token)
        THEN reqs' = Put(s, Respond([r EXCEPT !.acct = AccountSeen(u)],
                                    403, "Invalid refresh token"))
        ELSE reqs' = Put(s, Pending([r EXCEPT !.uid = u, !.acct = AccountSeen(u),
                                              !.access = signAccessToken(u),
                                              !.tok2 = signRefreshToken(u)]))
  /\ UNCHANGED <<users, nextId, nextReset, now, held, spent>>

\* user.save(), then the cookie and the response.
refreshSave(s) ==
  /\ InFlight(s) /\ reqs[s].op = "refresh"
  /\ LET r == reqs[s]
     IN IF findById(r.uid) = 0
        THEN /\ reqs' = Put(s, Respond([r EXCEPT !.access = NoToken],
                                       403, "Invalid or expired token"))
             /\ UNCHANGED <<users, held, spent>>
        ELSE /\ users' = [users EXCEPT ![r.uid].refreshToken = r.tok2]
             /\ reqs' = Put(s, Respond([r EXCEPT !.cookie = r.tok2], 200, ""))
             /\ held' \in Keep(r.tok2)
             /\ spent' = (spent \cup {r.tok}) \cap held'
  /\ UNCHANGED <<nextId, nextReset, now>>

\* ---------------------------------------------------------------- logout
\* res.clearCookie("refreshToken"): the cookie the response sets is empty.
ClearedCookie == [fam |-> "cleared", id |-> 0, email |-> "", iat |-> 0, exp |-> 0]
\* The catch block is empty: whatever the try block threw, the answer is 202.
\* Mutant: the catch block answers with the error.
logoutStatus_Rethrows(threw) == IF threw THEN 500 ELSE 202
logoutStatus(threw) == 202
logoutRespond(r, threw) ==
  IF logoutStatus(threw) = 202
  THEN Respond([r EXCEPT !.cookie = ClearedCookie], 202, "")
  ELSE Respond(r, logoutStatus(threw), "Logout failed")

\* if (user): the account's token is cleared whatever token was presented.
\* Mutant: only the stored token logs the account out.
logoutSkips_NotStored(u, token) == u = 0 \/ users[u].refreshToken # token
logoutSkips(u, token) == u = 0

logout(s, token) ==
  /\ Free(s)
  /\ LET u == findById(token.id)
         r == [Arrive(s, "logout") EXCEPT
                 !.tok = token, !.reuse = (token \in spent),
                 !.credOk = (u # 0 /\ users[u].refreshToken = token)]
     IN IF token = NoToken
        THEN reqs' = Put(s, logoutRespond(r, FALSE))
        ELSE IF ~verifyRefreshToken(token)
        THEN reqs' = Put(s, logoutRespond(r, TRUE))
        ELSE IF logoutSkips(u, token)
        THEN reqs' = Put(s, logoutRespond([r EXCEPT !.acct = AccountSeen(u)], FALSE))
        ELSE reqs' = Put(s, Pending([r EXCEPT !.uid = u, !.acct = AccountSeen(u)]))
  /\ UNCHANGED <<users, nextId, nextReset, now, held, spent>>

\* user.refreshToken = null.
afterLogout(doc) == [doc EXCEPT !.refreshToken = NoToken]

\* user.save() inside the try block, then clearCookie and the 202 response.
\* acct "gone": the save found no document and threw.
logoutSave(s) ==
  /\ InFlight(s) /\ reqs[s].op = "logout"
  /\ LET r == reqs[s]
     IN IF findById(r.uid) = 0
        THEN /\ reqs' = Put(s, logoutRespond([r EXCEPT !.acct = "gone"], TRUE))
             /\ UNCHANGED users
        ELSE /\ users' = [users EXCEPT ![r.uid] = afterLogout(@)]
             /\ reqs' = Put(s, logoutRespond(r, FALSE))
  /\ UNCHANGED <<nextId, nextReset, now, held, spent>>

\* ------------------------------------------------------ protected routes
\* 0: next() is called with req.user = the token's payload.
\* Mutant: any Bearer token is let through.
requireAuth_HeaderOnly(token) == IF token = NoToken THEN 401 ELSE 0
requireAuth(token) ==
  IF token = NoToken THEN 401 ELSE IF ~verifyAccessToken(token) THEN 403 ELSE 0
requireAuthError(token) ==
  IF token = NoToken THEN "No token"
  ELSE catchMessage(token, "Token expired or invalid")

\* name and email are "" when the body does not carry them.  A path set to
\* the value it already has is not modified and is not written by save().
updateProfile(s, token, name, email) ==
  /\ Free(s)
  /\ LET u == findById(token.id)
         r == [Arrive(s, "updateProfile") EXCEPT !.tok = token]
     IN IF requireAuth(token) # 0
        THEN reqs' = Put(s, Respond(r, requireAuth(token), requireAuthError(token)))
        ELSE IF u = 0
        THEN reqs' = Put(s, Respond(r, 404, "User not found"))
        ELSE reqs' = Put(s, Pending([r EXCEPT
               !.uid = u, !.acct = AccountSeen(u),
               !.name = IF name = users[u].name THEN "" ELSE name,
               !.email = IF email = users[u].email THEN "" ELSE email]))
  /\ UNCHANGED <<users, nextId, nextReset, now, held, spent>>

\* What save() writes for updateProfile: the modified paths name and email.
\* Mutant: an account whose email changes has to verify it again.
afterUpdateProfile_Unverifies(doc, name, email) ==
  [doc EXCEPT !.name = IF name = "" THEN @ ELSE name,
              !.email = IF email = "" THEN @ ELSE email,
              !.isVerified = IF email = "" THEN @ ELSE FALSE]
\* Mutant: the write stamps the document with the time of the write.
afterUpdateProfile_Restamps(doc, name, email) ==
  [doc EXCEPT !.name = IF name = "" THEN @ ELSE name,
              !.email = IF email = "" THEN @ ELSE email,
              !.createdAt = now]
afterUpdateProfile(doc, name, email) ==
  [doc EXCEPT !.name = IF name = "" THEN @ ELSE name,
              !.email = IF email = "" THEN @ ELSE email]

updateProfileSave(s) ==
  /\ InFlight(s) /\ reqs[s].op = "updateProfile"
  /\ LET r == reqs[s]
     IN IF findById(r.uid) = 0 \/ (r.email # "" /\ uniqueIndexRejects(r.email, r.uid))
        THEN /\ reqs' = Put(s, Respond(r, 500, "Failed to update profile"))
             /\ UNCHANGED users
        ELSE /\ users' = [users EXCEPT ![r.uid] = afterUpdateProfile(@, r.name, r.email)]
             /\ reqs' = Put(s, Respond(
                  [r EXCEPT !.body = accountInBody(users'[r.uid], FALSE)], 200, ""))
  /\ UNCHANGED <<nextId, nextReset, now, held, spent>>

\* findByIdAndDelete is one store operation.
deleteAccount(s, token) ==
  /\ Free(s)
  /\ LET u == findById(token.id)
         r == [Arrive(s, "deleteAccount") EXCEPT !.tok = token, !.acct = AccountSeen(u)]
     IN IF requireAuth(token) # 0
        THEN /\ reqs' = Put(s, Respond([r EXCEPT !.acct = ""],
                                       requireAuth(token), requireAuthError(token)))
             /\ UNCHANGED users
        ELSE IF u = 0
        THEN /\ reqs' = Put(s, Respond(r, 404, "User not found"))
             /\ UNCHANGED users
        ELSE /\ users' = Remove(u)
             /\ reqs' = Put(s, Respond(r, 200, ""))
  /\ UNCHANGED <<nextId, nextReset, now, held, spent>>

\* ---------------------------------------------------------------- reaper
\* The cron job: User.deleteMany({ isVerified: false, createdAt: { $lt } }).
\* Mutant: the filter has no createdAt condition.
sweepMatches_IgnoresAge(u) == ~users[u].isVerified
\* Mutant: the filter matches no document.
sweepMatches_Nothing(u) == FALSE
sweepMatches(u) ==
  ~users[u].isVerified /\ users[u].createdAt < now - GracePeriod

deleteUnverifiedUsers ==
  /\ users' = [i \in {j \in DOMAIN users : ~sweepMatches(j)} |-> users[i]]
  /\ UNCHANGED <<nextId, nextReset, now, reqs, held, spent>>

\* ----------------------------------------------------------------- clock
Tick ==
  /\ now < MaxTime
  /\ now' = now + 1
  /\ UNCHANGED <<users, nextId, nextReset, reqs, held, spent>>

\* ------------------------------------------------ reSendVerificationEmail
\* email is "" when the body does not carry it.  sendVerificationEmail of
\* utils/emails.js is called with the user alone: it stores nothing, and the
\* link it mails is the string "undefined", so no token reaches the client.
reSendVerificationEmail(s, email) ==
  /\ Free(s)
  /\ LET u == findOne(email)
         r == [Arrive(s, "resend") EXCEPT !.email = email, !.acct = AccountSeen(u)]
     IN IF email = ""
        THEN reqs' = Put(s, Respond([r EXCEPT !.acct = ""], 400, "Email required"))
        ELSE IF u = 0
        THEN reqs' = Put(s, Respond(r, 404, "User not found"))
        ELSE IF users[u].isVerified
        THEN reqs' = Put(s, Respond(r, 400, "Email already verified"))
        ELSE \E delivered \in BOOLEAN :
               IF delivered
               THEN reqs' = Put(s, Respond(r, 200, ""))
               ELSE reqs' = Put(s, Respond(r, 500, "Failed to resend verification email"))
  /\ UNCHANGED <<users, nextId, nextReset, now, held, spent>>

\* -------------------------------------------------------- forgotPassword
\* crypto.randomBytes(20).toString("hex"): a value never returned before.
\* iat and exp record when it was generated and the expiry computed with it
\* (Date.now() + 60 * 60 * 1000); the code keeps the expiry in the account.
\* Mutant: the expiry is the time of the call.
randomResetToken_NoLifetime ==
  [fam |-> "reset", id |-> nextReset, email |-> "", iat |-> now, exp |-> now]
randomResetToken ==
  [fam |-> "reset", id |-> nextReset, email |-> "", iat |-> now, exp |-> now + ResetTTL]
\* Reset tokens a client can put in the path of /reset-password/:token.
PresentableResets == {t \in held : t.fam = "reset"} \cup {Garbage}

forgotPassword(s, email) ==
  /\ Free(s)
  /\ LET u == findOne(email)
         r == [Arrive(s, "forgotPassword") EXCEPT !.email = email,
                                                  !.acct = AccountSeen(u)]
     IN IF u = 0
        THEN /\ reqs' = Put(s, Respond(r, 400, "User not found"))
             /\ UNCHANGED nextReset
        ELSE /\ nextReset <= MaxResets
             /\ reqs' = Put(s, Pending([r EXCEPT !.uid = u, !.tok2 = randomResetToken]))
             /\ nextReset' = nextReset + 1
  /\ UNCHANGED <<users, nextId, now, held, spent>>

\* user.save(), then sendPasswordResetEmail with the link, then the response.
\* user.resetPasswordToken = resetToken; user.resetPasswordExpiresAt = ...
\* Mutant: a reset token already stored is kept.
afterForgot_KeepsFirst(doc, resetToken) ==
  IF doc.resetPasswordToken # NoToken THEN doc
  ELSE [doc EXCEPT !.resetPasswordToken = resetToken,
                   !.resetPasswordExpiresAt = resetToken.exp]
afterForgot(doc, resetToken) ==
  [doc EXCEPT !.resetPasswordToken = resetToken,
              !.resetPasswordExpiresAt = resetToken.exp]

forgotPasswordSave(s) ==
  /\ InFlight(s) /\ reqs[s].op = "forgotPassword"
  /\ LET r == reqs[s]
     IN IF findById(r.uid) = 0
        THEN /\ reqs' = Put(s, Respond(r, 400, "No document found"))
             /\ UNCHANGED <<users, held>>
        ELSE /\ users' = [users EXCEPT ![r.uid] = afterForgot(@, r.tok2)]
             /\ \E delivered \in BOOLEAN :
                  IF delivered
                  THEN /\ reqs' = Put(s, Respond(r, 200, ""))
                       /\ held' \in Keep(r.tok2)
                  ELSE /\ reqs' = Put(s, Respond(r, 400, "Error sending password reset email"))
                       /\ UNCHANGED held
  /\ spent' = spent \cap held'
  /\ UNCHANGED <<nextId, nextReset, now>>

\* --------------------------------------------------------- resetPassword
\* User.findOne({ resetPasswordToken: token,
\*                resetPasswordExpiresAt: { $gt: Date.now() } }).
\* Mutant: the query has no expiry condition.
findOneByResetToken_AnyAge(token) ==
  IF \E i \in DOMAIN users : users[i].resetPasswordToken = token
  THEN CHOOSE i \in DOMAIN users : users[i].resetPasswordToken = token
  ELSE 0
findOneByResetToken(token) ==
  IF \E i \in DOMAIN users : /\ users[i].resetPasswordToken = token
                             /\ users[i].resetPasswordExpiresAt > now
  THEN CHOOSE i \in DOMAIN users : /\ users[i].resetPasswordToken = token
                                   /\ users[i].resetPasswordExpiresAt > now
  ELSE 0

\* The document resetPassword saves: the handler assigns bcrypt.hash(password,
\* 10) to user.password, and pre("save") hashes the modified password again.
\* authController.js does not require bcrypt: bcrypt.hash stands for the
\* library models/User.js requires.
\* Mutant: the token and its expiry are left in the account.
afterReset_KeepsToken(doc, hashedPassword) ==
  [doc EXCEPT !.password = preSave(hashedPassword)]
\* Mutant: a password reset ends the account's session.
afterReset_EndsSession(doc, hashedPassword) ==
  [doc EXCEPT !.password = preSave(hashedPassword),
              !.resetPasswordToken = NoToken, !.resetPasswordExpiresAt = 0,
              !.refreshToken = NoToken]
afterReset(doc, hashedPassword) ==
  [doc EXCEPT !.password = preSave(hashedPassword),
              !.resetPasswordToken = NoToken, !.resetPasswordExpiresAt = 0]

resetPassword(s, token, password) ==
  /\ Free(s)
  /\ LET u == findOneByResetToken(token)
         r == [Arrive(s, "resetPassword") EXCEPT
                 !.tok = token, !.pw = password, !.reuse = (token \in spent),
                 !.acct = AccountSeen(u),
                 !.email = IF u = 0 THEN "" ELSE users[u].email]
     IN IF u = 0
        THEN reqs' = Put(s, Respond(r, 400, "Invalid or expired reset token"))
        ELSE reqs' = Put(s, Pending([r EXCEPT !.uid = u]))
  /\ UNCHANGED <<users, nextId, nextReset, now, held, spent>>

\* user.save(), then sendResetSuccessEmail, then the response.
resetPasswordSave(s) ==
  /\ InFlight(s) /\ reqs[s].op = "resetPassword"
  /\ LET r == reqs[s]
     IN IF findById(r.uid) = 0
        THEN /\ reqs' = Put(s, Respond(r, 400, "No document found"))
             /\ UNCHANGED <<users, spent>>
        ELSE /\ users' = [users EXCEPT
                  ![r.uid] = afterReset(@, bcryptHash(Plain(r.pw)))]
             /\ \E delivered \in BOOLEAN :
                  IF delivered
                  THEN /\ reqs' = Put(s, Respond(r, 200, ""))
                       /\ spent' = (spent \cup {r.tok}) \cap held
                  ELSE /\ reqs' = Put(s, Respond(r, 400, "Error sending password reset success email"))
                       /\ UNCHANGED spent
  /\ UNCHANGED <<nextId, nextReset, now, held>>

\* --------------------------------------------------------------- profile
\* requireAuth, then findById and the response.  The handler has no
\* try/catch and no test for null: for an account that is gone, user.email
\* throws and the request is left without a response.
profile(s, token) ==
  /\ Free(s)
  /\ LET u == findById(token.id)
         r == [Arrive(s, "profile") EXCEPT !.tok = token]
     IN IF requireAuth(token) # 0
        THEN reqs' = Put(s, Respond(r, requireAuth(token), requireAuthError(token)))
        ELSE IF u = 0
        THEN reqs' = Put(s, Respond([r EXCEPT !.acct = AccountSeen(u)],
                                    0, "unhandled rejection"))
        ELSE reqs' = Put(s, Respond([r EXCEPT !.acct = AccountSeen(u),
                                              !.email = users[u].email],
                                    200, ""))
  /\ UNCHANGED <<users, nextId, nextReset, now, held, spent>>

\* -------------------------------------------------------- updatePassword
\* Mutant: the current password is not checked.
updatePasswordRejects_Never(u, currentPassword) == FALSE
updatePasswordRejects(u, currentPassword) == ~comparePassword(u, currentPassword)

\* requireAuth, findById(userId).select("+password"), the password check.
updatePassword(s, token, currentPassword, newPassword) ==
  /\ Free(s)
  /\ LET u == findById(token.id)
         r == [Arrive(s, "updatePassword") EXCEPT !.tok = token, !.pw = newPassword]
     IN IF requireAuth(token) # 0
        THEN reqs' = Put(s, Respond(r, requireAuth(token), requireAuthError(token)))
        ELSE IF u = 0
        THEN reqs' = Put(s, Respond([r EXCEPT !.acct = AccountSeen(u)],
                                    404, "User not found"))
        ELSE LET q == [r EXCEPT
                         !.acct = AccountSeen(u),
                         !.credOk = bcryptCompare(currentPassword, users[u].password)]
             IN IF updatePasswordRejects(u, currentPassword)
                THEN reqs' = Put(s, Respond(q, 401, "Current password is incorrect"))
                ELSE reqs' = Put(s, Pending([q EXCEPT !.uid = u]))
  /\ UNCHANGED <<users, nextId, nextReset, now, held, spent>>

\* user.password = newPassword; user.save(): the pre-save hook hashes it.
updatePasswordSave(s) ==
  /\ InFlight(s) /\ reqs[s].op = "updatePassword"
  /\ LET r == reqs[s]
     IN IF findById(r.uid) = 0
        THEN /\ reqs' = Put(s, Respond(r, 500, "Failed to update password"))
             /\ UNCHANGED users
        ELSE /\ users' = [users EXCEPT ![r.uid].password = preSave(Plain(r.pw))]
             /\ reqs' = Put(s, Respond(r, 200, ""))
  /\ UNCHANGED <<nextId, nextReset, now, held, spent>>

\* ------------------------------------------- job 'delete-unverified-user'
\* The agenda job for one userId: findById, return when the account is
\* missing or verified, sendUnverifiedReminder, then the five minute wait.
\* A reminder that cannot be sent fails the job.
deleteUnverifiedUser(s, userId) ==
  /\ Free(s)
  /\ LET u == findById(userId)
         r == [Arrive(s, "delete-unverified-user") EXCEPT !.acct = AccountSeen(u)]
     IN IF u = 0 \/ users[u].isVerified
        THEN reqs' = Put(s, Respond(r, 0, ""))
        ELSE \E delivered \in BOOLEAN :
               IF delivered
               THEN reqs' = Put(s, [r EXCEPT !.pc = "wait", !.uid = u])
               ELSE reqs' = Put(s, Respond(r, 0, "job failed"))
  /\ UNCHANGED <<users, nextId, nextReset, now, held, spent>>

\* After the wait: the second findById and the test of isVerified.
deleteUnverifiedUserRecheck(s) ==
  /\ reqs[s].op = "delete-unverified-user" /\ reqs[s].pc = "wait"
  /\ LET r == reqs[s]
         u == findById(r.uid)
     IN IF u = 0 \/ users[u].isVerified
        THEN reqs' = Put(s, Respond([r EXCEPT !.acct = AccountSeen(u)], 0, ""))
        ELSE reqs' = Put(s, Pending([r EXCEPT !.acct = AccountSeen(u)]))
  /\ UNCHANGED <<users, nextId, nextReset, now, held, spent>>

\* stillUnverified.deleteOne(): the document is deleted by its _id.
deleteUnverifiedUserDelete(s) ==
  /\ reqs[s].op = "delete-unverified-user" /\ reqs[s].pc = "save"
  /\ users' = IF findById(reqs[s].uid) = 0 THEN users ELSE Remove(reqs[s].uid)
  /\ reqs' = Put(s, Respond(reqs[s], 0, ""))
  /\ UNCHANGED <<nextId, nextReset, now, held, spent>>

\* ------------------------------------------------------- specifications
Handlers(s) ==
  \/ \E e \in Emails : register(s, e, RegisterPassword)
  \/ registerCreate(s)
  \/ \E t \in PresentableTokens : verifyEmail(s, t)
  \/ verifyEmailSave(s)
  \/ \E e \in Emails, p \in Passwords : login(s, e, p)
  \/ loginSave(s)
  \/ \E t \in PresentableTokens : refresh(s, t)
  \/ refreshSave(s)
  \/ \E t \in PresentableTokens : logout(s, t)
  \/ logoutSave(s)
  \/ \E t \in PresentableAccess, n \in {"", ProfileName}, e \in Emails \cup {""} :
       updateProfile(s, t, n, e)
  \/ updateProfileSave(s)
  \/ \E t \in PresentableAccess : deleteAccount(s, t)

\* One request at a time; the sweep and the clock run beside it.
Next ==
  \/ Handlers(1)
  \/ deleteUnverifiedUsers
  \/ Tick

Spec == Init /\ [][Next]_vars

\* Two refresh requests at a time on the session of one account.
RaceEmail == "a@x"

NextRefreshRace ==
  \/ register(1, RaceEmail, RegisterPassword)
  \/ registerCreate(1)
  \/ \E t \in PresentableTokens : verifyEmail(1, t)
  \/ verifyEmailSave(1)
  \/ login(1, RaceEmail, RegisterPassword)
  \/ loginSave(1)
  \/ \E s \in Slots, t \in PresentableTokens : refresh(s, t)
  \/ \E s \in Slots : refreshSave(s)
  \/ Tick

SpecRefreshRace == Init /\ [][NextRefreshRace]_vars

\* Two requests at a time that create an account or change an email.  No
\* step of these handlers reads the clock after the token check.
NextEmailRace ==
  \/ \E s \in Slots, e \in Emails : register(s, e, RegisterPassword)
  \/ \E s \in Slots : registerCreate(s)
  \/ \E t \in PresentableTokens : verifyEmail(1, t)
  \/ verifyEmailSave(1)
  \/ \E e \in Emails : login(1, e, RegisterPassword)
  \/ loginSave(1)
  \/ \E s \in Slots, t \in PresentableAccess, e \in Emails : updateProfile(s, t, "", e)
  \/ \E s \in Slots : updateProfileSave(s)

SpecEmailRace == Init /\ [][NextEmailRace]_vars

\* Registration, verification and resend, one request at a time, with the
\* sweep and the clock beside them.
NextVerification ==
  \/ \E e \in Emails : register(1, e, RegisterPassword)
  \/ registerCreate(1)
  \/ \E t \in PresentableTokens : verifyEmail(1, t)
  \/ verifyEmailSave(1)
  \/ \E e \in Emails \cup {""} : reSendVerificationEmail(1, e)
  \/ deleteUnverifiedUsers
  \/ Tick

SpecVerification == Init /\ [][NextVerification]_vars

\* Password reset for one account, one request at a time, with the clock.
NextReset ==
  \/ register(1, RaceEmail, RegisterPassword)
  \/ registerCreate(1)
  \/ \E t \in PresentableTokens : verifyEmail(1, t)
  \/ verifyEmailSave(1)
  \/ \E e \in Emails, p \in Passwords : login(1, e, p)
  \/ loginSave(1)
  \/ \E e \in Emails : forgotPassword(1, e)
  \/ forgotPasswordSave(1)
  \/ \E t \in PresentableResets, p \in Passwords : resetPassword(1, t, p)
  \/ resetPasswordSave(1)
  \/ Tick

SpecReset == Init /\ [][NextReset]_vars

\* Two requests at a time on the session of one account: logout beside
\* another logout or beside the deletion of the account.
NextSessionRace ==
  \/ register(1, RaceEmail, RegisterPassword)
  \/ registerCreate(1)
  \/ \E t \in PresentableTokens : verifyEmail(1, t)
  \/ verifyEmailSave(1)
  \/ login(1, RaceEmail, RegisterPassword)
  \/ loginSave(1)
  \/ \E s \in Slots, t \in PresentableTokens : logout(s, t)
  \/ \E s \in Slots : logoutSave(s)
  \/ \E s \in Slots, t \in PresentableAccess : deleteAccount(s, t)
  \/ Tick

SpecSessionRace == Init /\ [][NextSessionRace]_vars

\* A logout beside a refresh of the same session.
NextLogoutRace ==
  \/ register(1, RaceEmail, RegisterPassword)
  \/ registerCreate(1)
  \/ \E t \in PresentableTokens : verifyEmail(1, t)
  \/ verifyEmailSave(1)
  \/ login(1, RaceEmail, RegisterPassword)
  \/ loginSave(1)
  \/ \E t \in PresentableTokens : refresh(1, t)
  \/ refreshSave(1)
  \/ \E t \in PresentableTokens : logout(2, t)
  \/ logoutSave(2)
  \/ Tick

SpecLogoutRace == Init /\ [][NextLogoutRace]_vars

\* Every token a client has, of whatever family, presented wherever a token
\* is read: in the cookie, in the query string, in the Authorization header.
AnyToken ==
  held \cup {accessOf(t) : t \in {x \in held : x.fam = "refresh"}}
       \cup {NoToken, Garbage}

NextFamilies ==
  \/ register(1, RaceEmail, RegisterPassword)
  \/ registerCreate(1)
  \/ \E t \in AnyToken : verifyEmail(1, t)
  \/ verifyEmailSave(1)
  \/ login(1, RaceEmail, RegisterPassword)
  \/ loginSave(1)
  \/ \E t \in AnyToken : refresh(1, t)
  \/ refreshSave(1)
  \/ \E t \in AnyToken : logout(1, t)
  \/ logoutSave(1)
  \/ \E t \in AnyToken : updateProfile(1, t, ProfileName, "")
  \/ updateProfileSave(1)
  \/ \E t \in AnyToken : deleteAccount(1, t)
  \/ Tick

SpecFamilies == Init /\ [][NextFamilies]_vars

\* One account that changes its password and logs in with the old and the
\* new one.
NextPassword ==
  \/ register(1, RaceEmail, RegisterPassword)
  \/ registerCreate(1)
  \/ \E t \in PresentableTokens : verifyEmail(1, t)
  \/ verifyEmailSave(1)
  \/ \E p \in Passwords : login(1, RaceEmail, p)
  \/ loginSave(1)
  \/ \E t \in PresentableAccess, p \in Passwords, q \in Passwords :
       updatePassword(1, t, p, q)
  \/ updatePasswordSave(1)
  \/ Tick

SpecPassword == Init /\ [][NextPassword]_vars

NewPassword == "pw2"
\* The routes behind requireAuth, one request at a time, for accounts that
\* registered, verified and logged in; every token a client has is tried
\* in the Authorization header.
NextProtected ==
  \/ \E e \in Emails : register(1, e, RegisterPassword)
  \/ registerCreate(1)
  \/ \E t \in PresentableTokens : verifyEmail(1, t)
  \/ verifyEmailSave(1)
  \/ \E e \in Emails : login(1, e, RegisterPassword)
  \/ loginSave(1)
  \/ \E t \in AnyToken : profile(1, t)
  \/ \E t \in AnyToken, n \in {"", ProfileName}, e \in Emails \cup {""} :
       updateProfile(1, t, n, e)
  \/ updateProfileSave(1)
  \/ \E t \in AnyToken : updatePassword(1, t, RegisterPassword, NewPassword)
  \/ updatePasswordSave(1)
  \/ \E t \in AnyToken : deleteAccount(1, t)
  \/ Tick

SpecProtected == Init /\ [][NextProtected]_vars

\* One account with its session, deleted by a request that can run between
\* the read and the write of a login or a refresh, and registered again.
NextDeletion ==
  \/ register(1, RaceEmail, RegisterPassword)
  \/ registerCreate(1)
  \/ \E t \in PresentableTokens : verifyEmail(1, t)
  \/ verifyEmailSave(1)
  \/ login(1, RaceEmail, RegisterPassword)
  \/ loginSave(1)
  \/ \E t \in PresentableTokens : refresh(1, t)
  \/ refreshSave(1)
  \/ \E s \in Slots, t \in PresentableAccess : deleteAccount(s, t)
  \/ Tick

SpecDeletion == Init /\ [][NextDeletion]_vars

\* The sweep as a recurring job.  cron.schedule fires the callback every
\* thirty minutes for as long as the process runs, and the clock advances:
\* both are weakly fair.  No request is obliged to finish.  Accounts are
\* created while the clock can still run past their grace period.
NextSweep ==
  \/ \E e \in Emails : register(1, e, RegisterPassword)
  \/ (now + GracePeriod < MaxTime /\ registerCreate(1))
  \/ \E t \in PresentableTokens : verifyEmail(1, t)
  \/ verifyEmailSave(1)
  \/ deleteUnverifiedUsers
  \/ Tick

SpecSweepFair ==
  /\ Init /\ [][NextSweep]_vars
  /\ WF_vars(deleteUnverifiedUsers)
  /\ WF_vars(Tick)

\* Two resetPassword requests at a time for the reset token of one account.
NextResetRace ==
  \/ register(1, RaceEmail, RegisterPassword)
  \/ registerCreate(1)
  \/ forgotPassword(1, RaceEmail)
  \/ forgotPasswordSave(1)
  \/ \E s \in Slots, t \in PresentableResets, p \in Passwords : resetPassword(s, t, p)
  \/ \E s \in Slots : resetPasswordSave(s)

SpecResetRace == Init /\ [][NextResetRace]_vars

\* Every handler that writes to an account, for one email, one request at
\* a time, with the sweep and the clock beside them.
NextAccountWrites ==
  \/ register(1, RaceEmail, RegisterPassword)
  \/ registerCreate(1)
  \/ \E t \in PresentableTokens : verifyEmail(1, t)
  \/ verifyEmailSave(1)
  \/ reSendVerificationEmail(1, RaceEmail)
  \/ login(1, RaceEmail, RegisterPassword)
  \/ loginSave(1)
  \/ \E t \in PresentableTokens : refresh(1, t)
  \/ refreshSave(1)
  \/ \E t \in PresentableTokens : logout(1, t)
  \/ logoutSave(1)
  \/ forgotPassword(1, RaceEmail)
  \/ forgotPasswordSave(1)
  \/ \E t \in PresentableResets : resetPassword(1, t, RegisterPassword)
  \/ resetPasswordSave(1)
  \/ \E t \in PresentableAccess : updateProfile(1, t, ProfileName, "")
  \/ updateProfileSave(1)
  \/ \E t \in PresentableAccess : updatePassword(1, t, RegisterPassword, RegisterPassword)
  \/ updatePasswordSave(1)
  \/ deleteUnverifiedUsers
  \/ Tick

SpecAccountWrites == Init /\ [][NextAccountWrites]_vars

\* The per-account deletion job in slot 2 beside registration and
\* verification in slot 1.
NextJobRace ==
  \/ \E e \in Emails : register(1, e, RegisterPassword)
  \/ registerCreate(1)
  \/ \E t \in PresentableTokens : verifyEmail(1, t)
  \/ verifyEmailSave(1)
  \/ \E i \in Ids : deleteUnverifiedUser(2, i)
  \/ deleteUnverifiedUserRecheck(2)
  \/ deleteUnverifiedUserDelete(2)
  \/ Tick

SpecJobRace == Init /\ [][NextJobRace]_vars

\* The cookie of a client that kept the cookie of the session it opened: the
\* reset token reaches the client by mail, beside the cookie.
SessionCookies == {users[i].refreshToken : i \in DOMAIN users} \ {NoToken}

\* A password reset for an account with or without a session.
NextResetSession ==
  \/ register(1, RaceEmail, RegisterPassword)
  \/ registerCreate(1)
  \/ \E t \in PresentableTokens : verifyEmail(1, t)
  \/ verifyEmailSave(1)
  \/ \E p \in Passwords : login(1, RaceEmail, p)
  \/ loginSave(1)
  \/ \E t \in SessionCookies \cup {Garbage} : refresh(1, t)
  \/ refreshSave(1)
  \/ forgotPassword(1, RaceEmail)
  \/ forgotPasswordSave(1)
  \/ \E t \in PresentableResets : resetPassword(1, t, NewPassword)
  \/ resetPasswordSave(1)
  \/ Tick

SpecResetSession == Init /\ [][NextResetSession]_vars

\* ================================================================ claims
\* In the step, a request op arrived in slot s and its read was evaluated.
Decided(s, op) == ~InFlight(s) /\ reqs'[s] # reqs[s] /\ reqs'[s].op = op
\* In the step, the write of the request op in slot s ran and it responded.
Completed(s, op) == InFlight(s) /\ reqs[s].op = op /\ reqs'[s].pc = "done"
Done(s, op) == reqs[s].op = op /\ reqs[s].pc = "done"
StoredRefreshToken(t) == t.id \in DOMAIN users /\ users[t.id].refreshToken = t

\* C1: once a refresh presenting token T has succeeded, a later refresh
\* presenting the same T is answered 403.
C1_SpentTokenRejected ==
  \A s \in Slots : Done(s, "refresh") /\ reqs[s].reuse => reqs[s].status = 403

\* C2: of two refresh requests in flight together that both present the
\* token that was stored when each was read, exactly one succeeds and the
\* other is answered 403.
C2_OneConcurrentRefreshWins ==
  \A s1, s2 \in Slots :
    ( /\ s1 # s2
      /\ Done(s1, "refresh") /\ Done(s2, "refresh")
      /\ reqs[s1].tok = reqs[s2].tok
      /\ reqs[s1].credOk /\ reqs[s2].credOk
      /\ reqs[s1].ovl /\ reqs[s2].ovl )
    => {reqs[s1].status, reqs[s2].status} = {200, 403}

\* C3: a refresh gets past its check only when the presented token is the
\* token stored for the account it names; an absent token is answered 401,
\* any other token 403, both without a change of the store; and a 200 comes
\* only from a request that got past the check.
C3_RefreshOnlyForStoredToken ==
  [][\A s \in Slots :
       /\ Decided(s, "refresh") =>
            LET t == reqs'[s].tok
            IN /\ reqs'[s].pc = "save" => StoredRefreshToken(t) /\ now < t.exp
               /\ t = NoToken =>
                    reqs'[s].pc = "done" /\ reqs'[s].status = 401 /\ users' = users
               /\ t # NoToken /\ ~StoredRefreshToken(t) =>
                    reqs'[s].pc = "done" /\ reqs'[s].status = 403 /\ users' = users
               /\ reqs'[s].pc = "done" => reqs'[s].status # 200
       /\ Completed(s, "refresh") /\ reqs'[s].status # 200 =>
            reqs'[s].status = 403 /\ users' = users
    ]_vars
\* A rotated-out token of a live session has been refused.
C3_Witness ==
  \E s \in Slots :
    /\ Done(s, "refresh") /\ reqs[s].status = 403
    /\ reqs[s].tok.fam = "refresh" /\ now < reqs[s].tok.exp
    /\ reqs[s].tok.id \in DOMAIN users
    /\ users[reqs[s].tok.id].refreshToken \notin {NoToken, reqs[s].tok}

\* C4: login with the account's password is refused while the account is
\* unverified, and for a verified account it stores a session and answers
\* 200 with an access token and a refresh token for that account.
EmailOwner(e) == {i \in DOMAIN users : users[i].email = e}
CorrectPassword(i, p) == users[i].password = [plain |-> p, rounds |-> 1]
FailedProbe(r) == r.op = "login" /\ r.pc = "done" /\ ~r.credOk
C5_ProbesIndistinguishable ==
  [][\A s \in Slots :
       Decided(s, "login") /\ FailedProbe(reqs[s]) /\ FailedProbe(reqs'[s]) =>
         reqs'[s].status = reqs[s].status /\ reqs'[s].error = reqs[s].error
    ]_vars

\* C6: a successful login leaves its refresh token as the stored one, and
\* the token stored before it (an earlier session) is no longer the stored
\* token, so that it is refused from then on.
C6_LoginReplacesSession ==
  [][\A s \in Slots :
       Completed(s, "login") /\ reqs'[s].status = 200 =>
         LET i == reqs[s].uid
         IN /\ users'[i].refreshToken = reqs'[s].cookie
            /\ users[i].refreshToken # NoToken =>
                 users[i].refreshToken # users'[i].refreshToken
    ]_vars

\* C7: register for an email that has an account is answered 400 "Email
\* already in use"; no account is created or changed and no verification
\* token is sent.
C7_DuplicateEmailRefused ==
  [][\A s \in Slots :
       Decided(s, "register") /\ EmailOwner(reqs'[s].email) # {} =>
         /\ reqs'[s].pc = "done" /\ reqs'[s].status = 400
         /\ reqs'[s].error = "Email already in use"
         /\ users' = users /\ nextId' = nextId /\ held' = held
    ]_vars
C7_Witness ==
  \E s \in Slots :
    /\ Done(s, "register") /\ reqs[s].status = 400
    /\ EmailOwner(reqs[s].email) # {}

\* C8: no two accounts have the same email after any step, and the create
\* of a register that finds its email taken (by a register that ran beside
\* it) fails without creating an account, while one that finds it free
\* creates exactly one account.
EmailUnique ==
  \A i, j \in DOMAIN users : i # j => users[i].email # users[j].email
C8_EmailUniqueUnderRaces ==
  [][/\ EmailUnique'
     /\ \A s \in Slots :
          Completed(s, "register") =>
            IF EmailOwner(reqs[s].email) # {}
            THEN /\ users' = users /\ reqs'[s].made = 0
                 /\ reqs'[s].status = 500
            ELSE /\ DOMAIN users' = DOMAIN users \cup {reqs'[s].made}
                 /\ reqs'[s].made \notin DOMAIN users
                 /\ users'[reqs'[s].made].email = reqs[s].email
                 /\ \A i \in DOMAIN users : users'[i] = users[i]
    ]_vars
\* Two registers for one unused email ran together: one created the
\* account, the other failed without creating one.
C8_Witness ==
  \E s1, s2 \in Slots :
    /\ s1 # s2 /\ Done(s1, "register") /\ Done(s2, "register")
    /\ reqs[s1].email = reqs[s2].email
    /\ reqs[s1].acct = "missing" /\ reqs[s2].acct = "missing"
    /\ reqs[s1].ovl /\ reqs[s2].ovl
    /\ reqs[s1].made # 0 /\ reqs[s2].made = 0 /\ reqs[s2].status = 500
    /\ Cardinality(EmailOwner(reqs[s1].email)) = 1

\* C9: verifyEmail is answered 400 and changes no account when the token
\* does not verify, when no account has the token's email, or when the
\* account is already verified.
C9_VerifyEmailRefusals ==
  [][\A s \in Slots :
       Decided(s, "verifyEmail") =>
         LET t == reqs'[s].tok
         IN ( \/ t.fam # "verify" \/ now >= t.exp
              \/ EmailOwner(t.email) = {}
              \/ \E i \in EmailOwner(t.email) : users[i].isVerified )
            => /\ reqs'[s].pc = "done" /\ reqs'[s].status = 400
               /\ users' = users
    ]_vars
\* The token that verified the account was presented again and refused.
C9_Witness ==
  \E s \in Slots :
    /\ Done(s, "verifyEmail") /\ reqs[s].status = 400
    /\ reqs[s].tok.fam = "verify" /\ now < reqs[s].tok.exp
    /\ \E i \in EmailOwner(reqs[s].tok.email) :
         users[i].isVerified /\ users[i].verificationToken = NoToken

\* C10: the write of a verifyEmail for a pending account answers 200 and
\* changes isVerified and verificationToken of that account and nothing
\* else.
C10_VerifyEmailSucceeds ==
  [][\A s \in Slots :
       Completed(s, "verifyEmail") /\ reqs[s].uid \in DOMAIN users =>
         /\ reqs'[s].status = 200
         /\ users' = [users EXCEPT ![reqs[s].uid].isVerified = TRUE,
                                   ![reqs[s].uid].verificationToken = NoToken]
    ]_vars

\* C11: a verifyEmail that follows a successful resend for the same email
\* and presents a token issued before the resend is answered 400; and a
\* verifyEmail is answered 200 only for the token stored as the account's
\* verificationToken.
C11_ResendInvalidatesEarlierTokens ==
  [][\A s \in Slots :
       /\ ( /\ Done(s, "resend") /\ reqs[s].status = 200
            /\ Decided(s, "verifyEmail")
            /\ reqs'[s].tok.fam = "verify"
            /\ reqs'[s].tok.email = reqs[s].email )
          => reqs'[s].pc = "done" /\ reqs'[s].status = 400
       /\ Completed(s, "verifyEmail") /\ reqs'[s].status = 200 =>
            users[reqs[s].uid].verificationToken = reqs[s].tok
    ]_vars

\* C12: a sweep removes exactly the accounts that are unverified and were
\* created before now minus the grace period: whenever there is such an
\* account a sweep removes something, and a sweep that removes something
\* leaves exactly the other accounts, each with every field as it was.
Reapable(u) == ~u.isVerified /\ u.createdAt < now - GracePeriod
C12_SweepDeletesExactlyStaleUnverified ==
  [][/\ (\E i \in DOMAIN users : Reapable(users[i]))
          => ENABLED <<deleteUnverifiedUsers>>_vars
     /\ (reqs' = reqs /\ now' = now) =>
          /\ DOMAIN users' = {i \in DOMAIN users : ~Reapable(users[i])}
          /\ \A i \in DOMAIN users' : users'[i] = users[i]
    ]_vars
\* A sweep has removed a stale unverified account (the one the last
\* register created) and left a verified account of the same age.
C12_Witness ==
  \E s \in Slots :
    /\ Done(s, "register") /\ reqs[s].status = 201
    /\ reqs[s].made \notin DOMAIN users
    /\ \E i \in DOMAIN users :
         users[i].isVerified /\ users[i].createdAt < now - GracePeriod

\* C13: when the write of a verifyEmail runs on an account the sweep can
\* remove or has removed since the read, either the account is there
\* afterwards, verified, and the answer is 200, or the account is gone, is
\* not created again by the write, and the answer is 400; the request is
\* answered in both cases, and a sweep removes no verified account.
C13_SweepAgainstVerifyEmail ==
  [][/\ \A s \in Slots :
          ( /\ Completed(s, "verifyEmail")
            /\ reqs[s].uid \in DOMAIN users => Reapable(users[reqs[s].uid]) )
          => /\ reqs'[s].status # 0
             /\ IF reqs[s].uid \in DOMAIN users'
                THEN users'[reqs[s].uid].isVerified /\ reqs'[s].status = 200
                ELSE reqs'[s].status = 400 /\ users' = users
     /\ (reqs' = reqs /\ now' = now) =>
          \A i \in DOMAIN users \ DOMAIN users' : ~users[i].isVerified
    ]_vars

\* C14: a resetPassword presenting a token that an earlier resetPassword
\* answered 200 presented finds no account: it is answered 400 and changes
\* no account, also before the expiry computed for the token.
C14_ResetTokenSingleUse ==
  [][\A s \in Slots :
       Decided(s, "resetPassword") /\ reqs'[s].reuse =>
         /\ reqs'[s].pc = "done" /\ reqs'[s].status = 400
         /\ users' = users
    ]_vars
\* A used reset token was presented again before its expiry and refused.
C14_Witness ==
  \E s \in Slots :
    /\ Done(s, "resetPassword") /\ reqs[s].reuse /\ reqs[s].status = 400
    /\ reqs[s].tok.fam = "reset" /\ now < reqs[s].tok.exp

\* C15: a resetPassword presenting the reset token stored for an account
\* when the clock is not before the stored expiry is answered 400, and the
\* password, the reset token and the expiry of the account stay as they are.
C15_ExpiredResetTokenRefused ==
  [][\A s \in Slots :
       Decided(s, "resetPassword") =>
         \A i \in DOMAIN users :
           ( /\ users[i].resetPasswordToken = reqs'[s].tok
             /\ now >= users[i].resetPasswordExpiresAt )
           => /\ reqs'[s].pc = "done" /\ reqs'[s].status = 400
              /\ users'[i] = users[i]
    ]_vars
\* The stored reset token was presented at or after its expiry and refused.
C15_Witness ==
  \E s \in Slots :
    /\ Done(s, "resetPassword") /\ reqs[s].status = 400
    /\ \E i \in DOMAIN users :
         /\ users[i].resetPasswordToken = reqs[s].tok
         /\ reqs[s].tok.fam = "reset"
         /\ now >= users[i].resetPasswordExpiresAt

\* C16: the write of a resetPassword changes the password and clears the
\* reset token and its expiry in one step; and the login of a verified
\* account that follows a resetPassword answered 200 gets past the password
\* check with the password that was set, and is answered 401 with another.
C16_ResetPasswordTakesEffect ==
  [][\A s \in Slots :
       /\ Completed(s, "resetPassword") /\ reqs[s].uid \in DOMAIN users =>
            /\ users'[reqs[s].uid].password # users[reqs[s].uid].password
            /\ users'[reqs[s].uid].resetPasswordToken = NoToken
            /\ users'[reqs[s].uid].resetPasswordExpiresAt = 0
       /\ ( /\ Done(s, "resetPassword") /\ reqs[s].status = 200
            /\ Decided(s, "login") /\ reqs'[s].email = reqs[s].email
            /\ reqs'[s].acct = "verified" )
          => IF reqs'[s].pw = reqs[s].pw
             THEN reqs'[s].pc = "save"
             ELSE reqs'[s].pc = "done" /\ reqs'[s].status = 401
    ]_vars

\* C17: forgotPassword for an email without an account is answered 400
\* "User not found" and changes nothing; for an email with an account its
\* write stores a token no request generated before, with the expiry
\* ResetTTL after the call, and changes nothing else; the token mailed, when
\* the mail is delivered, is the stored one.
C17_ForgotPasswordIssuesToken ==
  [][\A s \in Slots :
       /\ Decided(s, "forgotPassword") /\ EmailOwner(reqs'[s].email) = {} =>
            /\ reqs'[s].pc = "done" /\ reqs'[s].status = 400
            /\ reqs'[s].error = "User not found"
            /\ users' = users /\ held' = held
       /\ Decided(s, "forgotPassword") /\ EmailOwner(reqs'[s].email) # {} =>
            /\ reqs'[s].pc = "save"
            /\ reqs'[s].tok2.fam = "reset" /\ reqs'[s].tok2.id = nextReset
            /\ reqs'[s].tok2.exp = now + ResetTTL
            /\ nextReset' > nextReset
       /\ Completed(s, "forgotPassword") /\ reqs[s].uid \in DOMAIN users =>
            /\ users' = [users EXCEPT
                 ![reqs[s].uid].resetPasswordToken = reqs[s].tok2,
                 ![reqs[s].uid].resetPasswordExpiresAt = reqs[s].tok2.iat + ResetTTL]
            /\ \A i \in DOMAIN users : users[i].resetPasswordToken # reqs[s].tok2
            /\ reqs[s].tok2 \notin held
            /\ held' \subseteq held \cup {users'[reqs[s].uid].resetPasswordToken}
    ]_vars
\* A reset token sits in an account and with the client, not yet expired.
C17_Witness ==
  \E s \in Slots, i \in DOMAIN users :
    /\ Done(s, "forgotPassword") /\ reqs[s].status = 200
    /\ users[i].resetPasswordToken \in held
    /\ users[i].resetPasswordExpiresAt > now

\* C18: every logout is answered 202 with the refresh-token cookie cleared:
\* without a token, with a token that does not verify, with the token of an
\* account that is gone, with a valid token, and when the save throws.
C18_LogoutNeverFails ==
  [][\A s \in Slots :
       /\ Decided(s, "logout") /\ reqs'[s].pc = "done" =>
            reqs'[s].status = 202 /\ reqs'[s].cookie = ClearedCookie
       /\ Completed(s, "logout") =>
            reqs'[s].status = 202 /\ reqs'[s].cookie = ClearedCookie
    ]_vars
\* The account was deleted between the read and the save of a logout.
C18_Witness ==
  \E s \in Slots :
    /\ Done(s, "logout") /\ reqs[s].acct = "gone"
    /\ reqs[s].status = 202 /\ reqs[s].cookie = ClearedCookie

\* C19: the write of a logout leaves the account without a stored refresh
\* token; while an account has none, a refresh presenting a token of that
\* account is answered 403 and changes nothing; and only the write of a
\* login gives such an account a stored refresh token again.
C19_LogoutRevokesSession ==
  [][/\ \A s \in Slots :
          /\ Completed(s, "logout") /\ reqs[s].uid \in DOMAIN users =>
               users'[reqs[s].uid].refreshToken = NoToken
          /\ ( /\ Decided(s, "refresh") /\ reqs'[s].tok # NoToken
               /\ reqs'[s].tok.id \in DOMAIN users
               /\ users[reqs'[s].tok.id].refreshToken = NoToken )
             => /\ reqs'[s].pc = "done" /\ reqs'[s].status = 403
                /\ users' = users
     /\ \A i \in DOMAIN users \cap DOMAIN users' :
          users[i].refreshToken = NoToken /\ users'[i].refreshToken # NoToken
          => \E s \in Slots : Completed(s, "login") /\ reqs[s].uid = i
    ]_vars
\* After a logout, the unexpired refresh token of the session was refused.
C19_Witness ==
  \E s \in Slots :
    /\ Done(s, "refresh") /\ reqs[s].status = 403
    /\ reqs[s].tok.fam = "refresh" /\ now < reqs[s].tok.exp
    /\ reqs[s].tok.id \in DOMAIN users
    /\ users[reqs[s].tok.id].refreshToken = NoToken

\* C20: no response carries a refresh token in the account object of its
\* body: a refresh token reaches the client in the cookie only.
C20_NoRefreshTokenInBody ==
  \A s \in Slots :
    reqs[s].pc = "done" => \A t \in reqs[s].body : t.fam # "refresh"

\* C21: the account object in the body of a register answered 201 carries
\* no token: neither the verificationToken nor any other token field.
C21_RegisterBodyHasNoToken ==
  \A s \in Slots :
    Done(s, "register") /\ reqs[s].status = 201 => reqs[s].body = {}

\* C22: a token of one family does nothing where another family is read:
\* refresh answers 403 to an access or verification token, logout looks up
\* no account for one, the protected routes answer 403 to a refresh or
\* verification token, and verifyEmail answers 400 to an access or refresh
\* token; the store is unchanged in each case.
ProtectedOps == {"profile", "updateProfile", "updatePassword", "deleteAccount"}
C22_TokenFamiliesAreSeparate ==
  [][\A s \in Slots :
       /\ Decided(s, "refresh") /\ reqs'[s].tok.fam \in {"access", "verify"} =>
            reqs'[s].pc = "done" /\ reqs'[s].status = 403 /\ users' = users
       /\ Decided(s, "logout") /\ reqs'[s].tok.fam \in {"access", "verify"} =>
            reqs'[s].pc = "done" /\ users' = users
       /\ Decided(s, "verifyEmail") /\ reqs'[s].tok.fam \in {"access", "refresh"} =>
            reqs'[s].pc = "done" /\ reqs'[s].status = 400 /\ users' = users
       /\ \A op \in ProtectedOps :
            Decided(s, op) /\ reqs'[s].tok.fam \in {"refresh", "verify"} =>
              reqs'[s].pc = "done" /\ reqs'[s].status = 403 /\ users' = users
    ]_vars
\* The unexpired access token of a live session was presented to refresh,
\* in the cookie, and refused.
C22_Witness ==
  \E s \in Slots :
    /\ Done(s, "refresh") /\ reqs[s].status = 403
    /\ reqs[s].tok.fam = "access" /\ now < reqs[s].tok.exp
    /\ reqs[s].tok.id \in DOMAIN users
    /\ users[reqs[s].tok.id].refreshToken # NoToken

\* C23: refresh, verifyEmail and the access-token check answer a token that
\* does not verify with one status and one error text each, whether the
\* token is expired, malformed or signed with another secret.
Unverifiable(token, fam) == token # NoToken /\ ~jwtVerify(token, fam)
C23_VerificationFailuresLookAlike ==
  [][\A s \in Slots :
       /\ Decided(s, "refresh") /\ Unverifiable(reqs'[s].tok, "refresh") =>
            /\ reqs'[s].status = 403
            /\ reqs'[s].error = "Invalid or expired token"
       /\ Decided(s, "verifyEmail") /\ Unverifiable(reqs'[s].tok, "verify") =>
            /\ reqs'[s].status = 400
            /\ reqs'[s].error = "Invalid or expired token"
       /\ \A op \in ProtectedOps :
            Decided(s, op) /\ Unverifiable(reqs'[s].tok, "access") =>
              /\ reqs'[s].status = 403
              /\ reqs'[s].error = "Token expired or invalid"
    ]_vars
\* A refresh token of a live session was presented after its lifetime.
C23_Witness ==
  \E s \in Slots :
    /\ Done(s, "refresh") /\ reqs[s].status = 403
    /\ reqs[s].tok.fam = "refresh" /\ now >= reqs[s].tok.exp
    /\ reqs[s].tok.id \in DOMAIN users
    /\ users[reqs[s].tok.id].refreshToken = reqs[s].tok

\* C24: a register, verifyEmail, forgotPassword or resetPassword whose write
\* changed the store answers with its success status, also when the email
\* that follows the write could not be sent.
C24_DeliveryFailureNotReported ==
  [][\A s \in Slots :
       \A op \in {"register", "verifyEmail", "forgotPassword", "resetPassword"} :
         Completed(s, op) /\ users' # users => reqs'[s].status \in {200, 201}
    ]_vars

\* C25: an authenticated updatePassword whose currentPassword is not the
\* account's password is answered 401 and changes nothing; with the
\* account's password its write stores the new password and answers 200,
\* and the login of the account that follows gets past the password check
\* with the new password and is answered 401 with any other.
ValidAccess(token) == token.fam = "access" /\ now < token.exp
C26_UpdateProfileFrame ==
  [][\A s \in Slots :
       /\ Decided(s, "updateProfile") =>
            /\ users' = users
            /\ reqs'[s].pc = "save" => reqs'[s].uid = reqs'[s].tok.id
       /\ Completed(s, "updateProfile") =>
            /\ DOMAIN users' = DOMAIN users
            /\ \A i \in DOMAIN users :
                 IF i = reqs[s].uid
                 THEN users'[i] = [users[i] EXCEPT !.name = users'[i].name,
                                                   !.email = users'[i].email]
                 ELSE users'[i] = users[i]
    ]_vars
\* An account with a session changed name and email while another account
\* was in the store.
C26_Witness ==
  \E s \in Slots :
    /\ Done(s, "updateProfile") /\ reqs[s].status = 200
    /\ reqs[s].tok.id \in DOMAIN users
    /\ users[reqs[s].tok.id].name = ProfileName
    /\ users[reqs[s].tok.id].email = "b@x"
    /\ users[reqs[s].tok.id].refreshToken # NoToken
    /\ Cardinality(DOMAIN users) = 2

\* C27: a deleteAccount answered 200 removed the account of its token and
\* nothing else; an _id that has left the store never returns to it; a
\* refresh whose token names an account that is gone is answered 403, a
\* login for an email no account has is answered 403, and the write of a
\* login or refresh whose account went away since the read reports no
\* success; none of them changes the store.
C27_DeletedAccountStaysGone ==
  [][/\ \A i \in Ids : i < nextId /\ i \notin DOMAIN users => i \notin DOMAIN users'
     /\ \A s \in Slots :
          /\ Decided(s, "deleteAccount") /\ reqs'[s].status = 200 =>
               /\ reqs'[s].tok.id \in DOMAIN users
               /\ DOMAIN users' = DOMAIN users \ {reqs'[s].tok.id}
               /\ \A i \in DOMAIN users' : users'[i] = users[i]
          /\ ( /\ Decided(s, "refresh") /\ reqs'[s].tok.fam = "refresh"
               /\ reqs'[s].tok.id \notin DOMAIN users )
             => /\ reqs'[s].pc = "done" /\ reqs'[s].status = 403
                /\ users' = users
          /\ Decided(s, "login") /\ EmailOwner(reqs'[s].email) = {} =>
               /\ reqs'[s].pc = "done" /\ reqs'[s].status = 403
               /\ users' = users
          /\ \A op \in {"login", "refresh"} :
               Completed(s, op) /\ reqs[s].uid \notin DOMAIN users =>
                 reqs'[s].status # 200 /\ users' = users
    ]_vars
\* The unexpired refresh token of a deleted account was presented and
\* refused.
C27_Witness ==
  \E s \in Slots :
    /\ Done(s, "refresh") /\ reqs[s].status = 403
    /\ reqs[s].tok.fam = "refresh" /\ now < reqs[s].tok.exp
    /\ reqs[s].tok.id < nextId /\ reqs[s].tok.id \notin DOMAIN users

\* C28: profile, updateProfile, updatePassword and deleteAccount called
\* without a Bearer token are answered 401, and with a token that is not an
\* unexpired access token 403; in both cases the handler reads no account,
\* starts no write and the store is unchanged.
C28_ProtectedRoutesNeedAccessToken ==
  [][\A s \in Slots : \A op \in ProtectedOps :
       Decided(s, op) /\ ~ValidAccess(reqs'[s].tok) =>
         /\ reqs'[s].pc = "done"
         /\ reqs'[s].status = IF reqs'[s].tok = NoToken THEN 401 ELSE 403
         /\ reqs'[s].acct = ""
         /\ users' = users
    ]_vars
\* The access token of a live account was presented to deleteAccount after
\* its lifetime and refused.
C28_Witness ==
  \E s \in Slots :
    /\ Done(s, "deleteAccount") /\ reqs[s].status = 403
    /\ reqs[s].tok.fam = "access" /\ now >= reqs[s].tok.exp
    /\ reqs[s].tok.id \in DOMAIN users

\* C29: with the sweep recurring and the clock advancing, every account
\* that is in the store unverified is later verified or removed; and a
\* sweep leaves no unverified account older than the grace period behind.
C29_UnverifiedEventuallyReaped ==
  /\ \A i \in Ids :
       (i \in DOMAIN users /\ ~users[i].isVerified)
         ~> (i \notin DOMAIN users \/ users[i].isVerified)
  /\ [][(reqs' = reqs /\ now' = now) =>
          \A i \in DOMAIN users' : ~Reapable(users'[i])]_vars
\* The account of a register that was answered 500, because the email
\* with the verification token could not be sent, has been removed.
C29_Witness ==
  \E s \in Slots :
    /\ Done(s, "register") /\ reqs[s].status = 500
    /\ reqs[s].made # 0 /\ reqs[s].made \notin DOMAIN users

\* C30: of two resetPassword requests in flight together that present the
\* same reset token, at most one is answered 200.
C30_OneConcurrentResetWins ==
  \A s1, s2 \in Slots :
    ( /\ s1 # s2
      /\ Done(s1, "resetPassword") /\ Done(s2, "resetPassword")
      /\ reqs[s1].tok = reqs[s2].tok /\ reqs[s1].tok.fam = "reset"
      /\ reqs[s1].ovl /\ reqs[s2].ovl )
    => ~(reqs[s1].status = 200 /\ reqs[s2].status = 200)

\* C31: a reSendVerificationEmail for an unverified account that is
\* answered 200 has stored a verification token generated at the time of
\* the call as the account's verificationToken.
C31_ResendStoresFreshToken ==
  [][\A s \in Slots :
       ( /\ Decided(s, "resend") /\ reqs'[s].acct = "pending"
         /\ reqs'[s].status = 200 )
       => \A i \in EmailOwner(reqs'[s].email) :
            /\ i \in DOMAIN users'
            /\ users'[i].verificationToken = generateToken(reqs'[s].email)
    ]_vars

\* C32: no step changes the createdAt of an account that is in the store
\* before and after the step.
C32_CreatedAtNeverChanges ==
  [][\A i \in DOMAIN users \cap DOMAIN users' :
       users'[i].createdAt = users[i].createdAt]_vars
\* A forgotPassword wrote a reset token to an unverified account after the
\* clock had advanced, and the account is within reach of the sweep.
C32_Witness ==
  \E s \in Slots :
    /\ Done(s, "forgotPassword") /\ reqs[s].status = 200
    /\ \E i \in EmailOwner(reqs[s].email) :
         /\ Reapable(users[i])
         /\ users[i].resetPasswordToken.fam = "reset"
         /\ users[i].resetPasswordToken.iat > users[i].createdAt

\* C33: the delete of the job 'delete-unverified-user' removes no account
\* that is verified when the delete runs.
C33_JobSparesVerifiedAccount ==
  [][\A s \in Slots :
       Completed(s, "delete-unverified-user") =>
         \A i \in DOMAIN users \ DOMAIN users' : ~users[i].isVerified
    ]_vars

\* C34: after every step an account with a stored refresh token is
\* verified; no step takes isVerified of an account from true to false;
\* and the sweep removes no account that has a stored refresh token.
C34_SessionImpliesVerified ==
  [][/\ \A i \in DOMAIN users' :
          users'[i].refreshToken # NoToken => users'[i].isVerified
     /\ \A i \in DOMAIN users \cap DOMAIN users' :
          users[i].isVerified => users'[i].isVerified
     /\ (reqs' = reqs /\ now' = now) =>
          \A i \in DOMAIN users \ DOMAIN users' : users[i].refreshToken = NoToken
    ]_vars
\* An account older than the grace period has a stored refresh token.
C34_Witness ==
  \E i \in DOMAIN users :
    /\ users[i].refreshToken # NoToken
    /\ users[i].createdAt < now - GracePeriod

\* C35: once a logout and a refresh that were in flight together and both
\* presented the refresh token stored for the account have completed, the
\* account has no stored refresh token.
C35_LogoutBeatsConcurrentRefresh ==
  \A s1, s2 \in Slots :
    ( /\ s1 # s2
      /\ Done(s1, "refresh") /\ Done(s2, "logout")
      /\ reqs[s1].tok = reqs[s2].tok /\ reqs[s1].tok.fam = "refresh"
      /\ reqs[s1].credOk /\ reqs[s2].acct = "verified"
      /\ reqs[s1].ovl /\ reqs[s2].ovl
      /\ reqs[s1].tok.id \in DOMAIN users )
    => users[reqs[s1].tok.id].refreshToken = NoToken

\* C36: a logout presenting an unexpired refresh token of an account in the
\* store goes on to its write whether or not the token is the stored one,
\* and the write clears the account's stored refresh token and changes
\* nothing else; a refresh presenting a token that is not the stored one is
\* answered 403.
C36_AnyValidTokenLogsOut ==
  [][\A s \in Slots :
       /\ ( /\ Decided(s, "logout") /\ reqs'[s].tok.fam = "refresh"
            /\ now < reqs'[s].tok.exp /\ reqs'[s].tok.id \in DOMAIN users )
          => reqs'[s].pc = "save" /\ reqs'[s].uid = reqs'[s].tok.id
       /\ Completed(s, "logout") /\ reqs[s].uid \in DOMAIN users =>
            users' = [users EXCEPT ![reqs[s].uid].refreshToken = NoToken]
       /\ ( /\ Decided(s, "refresh") /\ reqs'[s].tok.fam = "refresh"
            /\ reqs'[s].tok.id \in DOMAIN users
            /\ users[reqs'[s].tok.id].refreshToken # reqs'[s].tok )
          => reqs'[s].pc = "done" /\ reqs'[s].status = 403
    ]_vars
\* A logout presented a token that a refresh had rotated out and that was
\* not the stored one, and the account was left without a stored token.
C36_Witness ==
  \E s \in Slots :
    /\ Done(s, "logout") /\ reqs[s].reuse /\ ~reqs[s].credOk
    /\ reqs[s].acct = "verified"
    /\ reqs[s].tok.fam = "refresh" /\ now < reqs[s].tok.exp
    /\ reqs[s].tok.id \in DOMAIN users
    /\ users[reqs[s].tok.id].refreshToken = NoToken

\* C37: the writes of forgotPassword and resetPassword leave the stored
\* refresh token and isVerified of the account as they were; the refresh
\* that follows a resetPassword answered 200 and presents the unexpired
\* stored token gets past its check; and a login for an unverified account
\* is answered 403.
C37_ResetLeavesSessionAndVerification ==
  [][\A s \in Slots :
       /\ \A op \in {"forgotPassword", "resetPassword"} :
            Completed(s, op) /\ reqs[s].uid \in DOMAIN users =>
              /\ reqs[s].uid \in DOMAIN users'
              /\ users'[reqs[s].uid].refreshToken = users[reqs[s].uid].refreshToken
              /\ users'[reqs[s].uid].isVerified = users[reqs[s].uid].isVerified
       /\ ( /\ Done(s, "resetPassword") /\ reqs[s].status = 200
            /\ Decided(s, "refresh") /\ StoredRefreshToken(reqs'[s].tok)
            /\ now < reqs'[s].tok.exp )
          => reqs'[s].pc = "save"
       /\ Decided(s, "login") /\ reqs'[s].acct = "pending" =>
            /\ reqs'[s].pc = "done" /\ reqs'[s].status = 403
            /\ users' = users
    ]_vars
\* A refresh presenting a token stored before a password reset was answered
\* 200 after the reset.
C37_Witness ==
  \E s \in Slots :
    /\ Done(s, "refresh") /\ reqs[s].status = 200
    /\ reqs[s].tok.id \in DOMAIN users
    /\ ~CorrectPassword(reqs[s].tok.id, RegisterPassword)

\* C38: the write of a forgotPassword stores its own token and expiry in
\* place of whatever was stored; a resetPassword goes on to its write only
\* with the token stored for the account, and with a reset token that no
\* account has stored it is answered 400 and changes nothing.
C38_NewestResetTokenOnly ==
  [][\A s \in Slots :
       /\ Completed(s, "forgotPassword") /\ reqs[s].uid \in DOMAIN users =>
            /\ users'[reqs[s].uid].resetPasswordToken = reqs[s].tok2
            /\ users'[reqs[s].uid].resetPasswordExpiresAt = reqs[s].tok2.exp
       /\ Decided(s, "resetPassword") /\ reqs'[s].pc = "save" =>
            users[reqs'[s].uid].resetPasswordToken = reqs'[s].tok
       /\ ( /\ Decided(s, "resetPassword") /\ reqs'[s].tok.fam = "reset"
            /\ \A i \in DOMAIN users : users[i].resetPasswordToken # reqs'[s].tok )
          => /\ reqs'[s].pc = "done" /\ reqs'[s].status = 400
             /\ users' = users
    ]_vars
\* An unexpired reset token that no resetPassword had used was refused
\* while the account had a later reset token stored.
C38_Witness ==
  \E s \in Slots :
    /\ Done(s, "resetPassword") /\ reqs[s].status = 400 /\ ~reqs[s].reuse
    /\ reqs[s].tok.fam = "reset" /\ now < reqs[s].tok.exp
    /\ \E i \in DOMAIN users :
         /\ users[i].resetPasswordToken.fam = "reset"
         /\ users[i].resetPasswordToken.id > reqs[s].tok.id

\* C39: profile, updateProfile, updatePassword and deleteAccount called
\* with an unexpired access token of an account that is no longer in the
\* store are answered 404 and change nothing.
C39_RemovedAccountGetsNotFound ==
  [][\A s \in Slots : \A op \in ProtectedOps :
       ( /\ Decided(s, op) /\ ValidAccess(reqs'[s].tok)
         /\ reqs'[s].tok.id \notin DOMAIN users )
       => /\ reqs'[s].pc = "done" /\ reqs'[s].status = 404
          /\ users' = users
    ]_vars
=============================================================================
